---- MODULE Spec2Model ----
(***************************************************************************)
(* Session idle-lifecycle coordinator of the dashboard (UserPanel).        *)
(*                                                                         *)
(* Times are milliseconds, as Date.now() gives them.  A timestamp or a     *)
(* timer handle that is null in the program is 0 here: the program tests   *)
(* both by truthiness only, and Date.now() is never 0.  idleCountdown,     *)
(* which the program tests against null separately from 0, is -1 when null.*)
(*                                                                         *)
(* Each handler of the component is an operator from the coordinator's     *)
(* record of refs and React state to the record after the handler has run  *)
(* to completion (the context is single-threaded).  `cl' is the closure a  *)
(* handler was created in: the activeInstances.length and                  *)
(* activeIdleMinutes of that render.                                       *)
(***************************************************************************)
EXTENDS Integers, Sequences, FiniteSets

\* ------------------------------------------------------------- bounds
EventStepMs == 60000
MaxSteps == 7
MaxBatches == 1
ReaperIntervalMs == 30000
ReaperStepMs == 20000
ReaperMaxSteps == 12

\* -------------------------------------------------- program constants
DEFAULT_IDLE_MINUTES == 30
PROMPT_COUNTDOWN_SECONDS == 300

Sessions == {"a", "b"}
TemplateOf(s) == IF s = "a" THEN "t1" ELSE "t2"
SrvTemplates == [t1 |-> 1, t2 |-> 2]

Max(x, y) == IF x >= y THEN x ELSE y
SetMin(S) == CHOOSE x \in S : \A y \in S : x <= y
\* Math.ceil(x / d) for an integer x and d > 0
Ceil(x, d) == (x + d - 1) \div d
FreshId(used) == CHOOSE i \in 1..(Cardinality(used) + 1) : \A x \in used : x.id # i

VARIABLES
  now,        \* Date.now()
  hidden,     \* document.hidden
  pods,       \* the server's session list: session id -> status
  instances,  \* React state `instances`: the list as last fetched
  templates,  \* React state `templates`: template id -> idle_timeout_minutes
  co,         \* the refs and the remaining React state of the component
  rp,         \* the server's reaper and what it keeps for each session
  gh          \* history of the run, read by the properties only

vars == <<now, hidden, pods, instances, templates, co, rp, gh>>

\* ------------------------------------------------ derived render state
activeInstances(inst) == {s \in Sessions : inst[s] \in {"running", "pending"}}

\* templateIdleMinutes without the default
templateIdleMinutesNoDefault(tmpls, tid) ==
  IF tid \in DOMAIN tmpls THEN tmpls[tid] ELSE 0

templateIdleMinutes(tmpls, tid) ==
  IF tid \in DOMAIN tmpls /\ tmpls[tid] # 0 THEN tmpls[tid] ELSE DEFAULT_IDLE_MINUTES

SetMax(S) == CHOOSE x \in S : \A y \in S : x >= y
\* activeIdleMinutes taking the largest timeout of the active instances
activeIdleMinutesMax(inst, tmpls) ==
  IF activeInstances(inst) = {} THEN 0
  ELSE SetMax({templateIdleMinutes(tmpls, TemplateOf(s)) : s \in activeInstances(inst)})

\* null (0) with no active instance
activeIdleMinutes(inst, tmpls) ==
  IF activeInstances(inst) = {} THEN 0
  ELSE SetMin({templateIdleMinutes(tmpls, TemplateOf(s)) : s \in activeInstances(inst)})

Closure(inst, tmpls) ==
  [len |-> Cardinality(activeInstances(inst)), mins |-> activeIdleMinutes(inst, tmpls)]

\* the render in which the message listener was registered: the first one
NoTemplates == [t \in {} |-> 0]
MountClosure == Closure([s \in Sessions |-> "absent"], NoTemplates)

\* ------------------------------------------------------------ handlers
\* consoleWindowsRef.current[id] is "none", or the window registered for the
\* id: "open", "closed" (win.closed), or "broken", an open window to which
\* postMessage throws.

\* broadcastActivityToConsoles that gives up at a closed window
broadcastActivityStopsAtClosed(c, timestamp) ==
  LET live == {s \in Sessions : c.consoleWindows[s] = "open"}
      gone == {s \in Sessions : c.consoleWindows[s] = "closed"}
  IN IF gone # {} THEN c
     ELSE [c EXCEPT !.outbox = @ \cup {[type |-> "idle-activity", to |-> s,
                                         timestamp |-> timestamp] : s \in live}]

broadcastActivityToConsoles(c, timestamp) ==
  LET live == {s \in Sessions : c.consoleWindows[s] = "open"}
      gone == {s \in Sessions : c.consoleWindows[s] = "closed"}
  IN [c EXCEPT !.consoleWindows = [s \in Sessions |-> IF s \in gone THEN "none" ELSE @[s]],
               !.consoleHandshake = [s \in Sessions |-> IF s \in gone THEN "none" ELSE @[s]],
               !.outbox = @ \cup {[type |-> "idle-activity", to |-> s, timestamp |-> timestamp]
                                   : s \in live}]

broadcastFocusToConsoles(c, focused, t) ==
  LET live == {s \in Sessions : c.consoleWindows[s] = "open"}
      gone == {s \in Sessions : c.consoleWindows[s] = "closed"}
  IN [c EXCEPT !.consoleWindows = [s \in Sessions |-> IF s \in gone THEN "none" ELSE @[s]],
               !.consoleHandshake = [s \in Sessions |-> IF s \in gone THEN "none" ELSE @[s]],
               !.outbox = @ \cup {[type |-> IF focused THEN "idle-focus" ELSE "idle-blur",
                                    to |-> s, timestamp |-> t] : s \in live}]

\* clearIdleTimers that forgets the deadline timer without clearTimeout
clearIdleTimersKeepsTimeout(c, resetIdleStart) ==
  [c EXCEPT !.idleTimerRef = 0,
            !.intervals = {x \in @ : x.id # c.countdownRef},
            !.countdownRef = 0,
            !.countdownEndsAt = 0,
            !.idleStartsAt = IF resetIdleStart THEN 0 ELSE @]

clearIdleTimers(c, resetIdleStart) ==
  [c EXCEPT !.timers = {x \in @ : x.id # c.idleTimerRef},
            !.idleTimerRef = 0,
            !.intervals = {x \in @ : x.id # c.countdownRef},
            !.countdownRef = 0,
            !.countdownEndsAt = 0,
            !.idleStartsAt = IF resetIdleStart THEN 0 ELSE @]

clearIdlePrompt(c) ==
  [c EXCEPT !.showIdlePrompt = FALSE, !.idlePromptRef = FALSE, !.idleCountdown = -1]

\* scheduleIdleTimer without the clearTimeout of the timer it replaces
scheduleIdleTimerKeepsOld(c, t) ==
  IF c.idleSuspended THEN c
  ELSE IF c.idleStartsAt = 0 THEN c
  ELSE LET delay == Max(0, c.idleStartsAt - t)
           id == FreshId(c.timers)
       IN [c EXCEPT !.timers = @ \cup {[id |-> id, due |-> t + delay,
                                         startedAt |-> c.idleStartsAt]},
                    !.idleTimerRef = id]

scheduleIdleTimer(c, t) ==
  LET c1 == [c EXCEPT !.timers = {x \in @ : x.id # c.idleTimerRef}, !.idleTimerRef = 0]
  IN IF c1.idleSuspended THEN c1
     ELSE IF c1.idleStartsAt = 0 THEN c1
     ELSE LET delay == Max(0, c1.idleStartsAt - t)
              id == FreshId(c1.timers)
          IN [c1 EXCEPT !.timers = @ \cup {[id |-> id, due |-> t + delay,
                                            startedAt |-> c1.idleStartsAt]},
                        !.idleTimerRef = id]

\* starts the two list requests; the response is applied later (FetchDone)
refresh(c) == [c EXCEPT !.fetching = TRUE]

\* api.delete for every id of the batch; the responses arrive later (BatchDone).
\* issued records the delete requests sent for an id since the list was last
\* applied: none (0), one (1), more than one (2).
deleteInstances(c, instanceIds, reason, keepMessage) ==
  IF instanceIds = {} THEN c
  ELSE [c EXCEPT !.batches = Append(@, [kind |-> "delete", ids |-> instanceIds,
                                        reason |-> reason, keepMessage |-> keepMessage]),
                 !.issued = [s \in Sessions |-> IF s \in instanceIds THEN (IF @[s] = 0 THEN 1 ELSE 2) ELSE @[s]]]

\* remove up to the await: api.delete for the one id
remove(c, instanceId) ==
  [c EXCEPT !.batches = Append(@, [kind |-> "remove", ids |-> {instanceId},
                                   reason |-> "", keepMessage |-> FALSE])]

\* api.post .../stop for every id of the batch
stopInstances(c, instanceIds) ==
  IF instanceIds = {} THEN c
  ELSE [c EXCEPT !.batches = Append(@, [kind |-> "stop", ids |-> instanceIds,
                                        reason |-> "", keepMessage |-> FALSE])]

\* endNow that takes every call for the user's "No, end lab"
\* The answers of a batch: r maps each id of the batch to the HTTP status of its
\* response, 0 when the request failed with no response.  axios rejects every
\* status outside 200..299 and .catch((err) => err) turns the rejection into
\* an Error value with err.response.status.
isError(status) == status \notin 200..299
Statuses == {0, 200, 404, 500}
DeleteFailedMessage == "Some idle VMs failed to delete; please check the labs list."
StopFailedMessage == "Some idle VMs failed to stop; please check the labs list."

deleteFailuresWith404(r) == {s \in DOMAIN r : isError(r[s])}

\* deleteInstances after the await: the results counted as failures
deleteFailures(r) ==
  {s \in DOMAIN r : ~(~isError(r[s]) /\ r[s] # 0 /\ r[s] < 400) /\ r[s] # 404}

\* stopInstances after the await: the results counted as failures
stopFailures(r) == {s \in DOMAIN r : isError(r[s]) \/ r[s] >= 400}

\* remove after the await: the rejected request goes to the catch block, which
\* shows the server's detail or 'Failed to delete VM'
removeDone(c, status) ==
  IF isError(status) THEN [c EXCEPT !.message = "Failed to delete VM"]
  ELSE refresh([c EXCEPT !.message = ""])

\* deleteInstances from the failures on
deleteInstancesDone(c, reason, keepMessage, failures) ==
  refresh([c EXCEPT !.message =
    IF failures # {} THEN DeleteFailedMessage
    ELSE IF ~keepMessage
    THEN (IF reason = "idle-timeout" THEN "Session ended due to inactivity." ELSE "")
    ELSE @])

\* stopInstances from the failures on
stopInstancesDone(c, failures) ==
  refresh([c EXCEPT !.message =
    IF failures # {} THEN StopFailedMessage
    ELSE ""])

\* endNow that stops the sessions when the countdown ran out and deletes them
\* only for the button
endNowStopsWhenAuto(c, auto) ==
  LET c1 == clearIdlePrompt(clearIdleTimers(c, TRUE))
      c2 == [c1 EXCEPT !.sessionEnded = TRUE,
                       !.message = IF auto THEN "Session ended due to inactivity."
                                   ELSE "Session ended."]
  IN IF auto THEN stopInstances(c2, c2.latestInstanceIds)
     ELSE deleteInstances(c2, c2.latestInstanceIds, "user-end", TRUE)

endNowAsUserEnd(c, auto) ==
  LET c1 == clearIdlePrompt(clearIdleTimers(c, TRUE))
      c2 == [c1 EXCEPT !.sessionEnded = TRUE, !.message = "Session ended."]
  IN deleteInstances(c2, c2.latestInstanceIds, "user-end", TRUE)

endNow(c, auto) ==
  LET c1 == clearIdlePrompt(clearIdleTimers(c, TRUE))
      c2 == [c1 EXCEPT !.sessionEnded = TRUE,
                       !.message = IF auto THEN "Session ended due to inactivity."
                                   ELSE "Session ended."]
  IN deleteInstances(c2, c2.latestInstanceIds,
                     IF auto THEN "idle-timeout" ELSE "user-end", TRUE)

\* updateCountdown without the test of idlePromptRef
updateCountdownUnguarded(c, t) ==
  IF c.countdownEndsAt = 0 THEN c
  ELSE LET remainingSeconds == Max(0, Ceil(c.countdownEndsAt - t, 1000))
           c1 == [c EXCEPT !.idleCountdown = remainingSeconds]
       IN IF remainingSeconds <= 0 THEN endNow(c1, TRUE) ELSE c1

updateCountdown(c, t) ==
  IF ~c.idlePromptRef THEN c
  ELSE IF c.countdownEndsAt = 0 THEN c
  ELSE LET remainingSeconds == Max(0, Ceil(c.countdownEndsAt - t, 1000))
           c1 == [c EXCEPT !.idleCountdown = remainingSeconds]
       IN IF remainingSeconds <= 0 THEN endNow(c1, TRUE) ELSE c1

\* startIdleCountdown without the test of the instance ids
startIdleCountdownAnyIds(c, startedAt, t) ==
  LET baseline == IF startedAt # 0 THEN startedAt
                  ELSE IF c.idleStartsAt # 0 THEN c.idleStartsAt ELSE t
      endsAt == baseline + PROMPT_COUNTDOWN_SECONDS * 1000
      kept == {x \in c.intervals : x.id # c.countdownRef}
      id == FreshId(kept)
      c1 == [c EXCEPT !.idlePromptRef = TRUE,
                      !.showIdlePrompt = TRUE,
                      !.sessionEnded = FALSE,
                      !.countdownEndsAt = endsAt,
                      !.idleCountdown = Max(0, Ceil(endsAt - t, 1000)),
                      !.intervals = kept \cup {[id |-> id, due |-> t + 1000]},
                      !.countdownRef = id]
  IN updateCountdown(c1, t)

\* instanceIds defaults to latestInstanceIdsRef.current at every call site
startIdleCountdown(c, startedAt, t) ==
  IF c.latestInstanceIds = {} THEN c
  ELSE LET baseline == IF startedAt # 0 THEN startedAt
                       ELSE IF c.idleStartsAt # 0 THEN c.idleStartsAt ELSE t
           endsAt == baseline + PROMPT_COUNTDOWN_SECONDS * 1000
           kept == {x \in c.intervals : x.id # c.countdownRef}
           id == FreshId(kept)
           c1 == [c EXCEPT !.idlePromptRef = TRUE,
                           !.showIdlePrompt = TRUE,
                           !.sessionEnded = FALSE,
                           !.countdownEndsAt = endsAt,
                           !.idleCountdown = Max(0, Ceil(endsAt - t, 1000)),
                           !.intervals = kept \cup {[id |-> id, due |-> t + 1000]},
                           !.countdownRef = id]
       IN updateCountdown(c1, t)

updateIdleStartFromActivity(c, activityAt, cl) ==
  IF cl.mins = 0 THEN c
  ELSE [c EXCEPT !.idleStartsAt = activityAt + Max(1, cl.mins) * 60 * 1000]

\* ensureActivityTimestamp that takes the current time whatever is kept
ensureActivityTimestampFresh(c, t) == [c EXCEPT !.lastActivityAt = t, !.stored = t]

ensureActivityTimestamp(c, t) ==
  IF c.lastActivityAt # 0 THEN c
  ELSE LET fallback == IF c.stored # 0 THEN c.stored ELSE t
       IN [c EXCEPT !.lastActivityAt = fallback, !.stored = fallback]

\* recordActivity that posts nothing to the console windows
recordActivitySilent(c, emit, timestamp, cl, t) ==
  IF c.idleSuspended THEN c
  ELSE IF c.idlePromptRef THEN c
  ELSE IF cl.len = 0 \/ cl.mins = 0 THEN c
  ELSE LET nw == IF timestamp # 0 THEN timestamp ELSE t
           c1 == [c EXCEPT !.lastActivityAt = nw, !.stored = nw]
       IN scheduleIdleTimer(updateIdleStartFromActivity(c1, nw, cl), t)

\* timestamp = 0: the caller passed none
recordActivity(c, emit, timestamp, cl, t) ==
  IF c.idleSuspended THEN c
  ELSE IF c.idlePromptRef THEN c
  ELSE IF cl.len = 0 \/ cl.mins = 0 THEN c
  ELSE LET nw == IF timestamp # 0 THEN timestamp ELSE t
           c1 == [c EXCEPT !.lastActivityAt = nw, !.stored = nw]
           c2 == scheduleIdleTimer(updateIdleStartFromActivity(c1, nw, cl), t)
       IN IF emit THEN broadcastActivityToConsoles(c2, nw) ELSE c2

\* suspendIdle without clearIdleTimers
suspendIdleKeepsTimers(c, timestamp, cl) ==
  LET c1 == clearIdlePrompt([c EXCEPT !.idleSuspended = TRUE])
      c2 == [c1 EXCEPT !.sessionEnded = FALSE]
  IN IF timestamp # 0
     THEN updateIdleStartFromActivity(
            [c2 EXCEPT !.lastActivityAt = timestamp, !.stored = timestamp], timestamp, cl)
     ELSE c2

suspendIdle(c, timestamp, cl) ==
  LET c1 == clearIdlePrompt(clearIdleTimers([c EXCEPT !.idleSuspended = TRUE], TRUE))
      c2 == [c1 EXCEPT !.sessionEnded = FALSE]
  IN IF timestamp # 0
     THEN updateIdleStartFromActivity(
            [c2 EXCEPT !.lastActivityAt = timestamp, !.stored = timestamp], timestamp, cl)
     ELSE c2

handleExternalActivity(c, timestamp, cl, t) ==
  IF cl.len = 0 \/ cl.mins = 0 THEN c
  ELSE suspendIdle(c, IF timestamp # 0 THEN timestamp ELSE t, cl)

resumeIdle(c, timestamp, cl, t) ==
  LET c1 == [c EXCEPT !.idleSuspended = FALSE]
  IN IF cl.len = 0 \/ cl.mins = 0 THEN c1
     ELSE LET nw == IF timestamp # 0 THEN timestamp ELSE t
              c2 == [c1 EXCEPT !.lastActivityAt = nw, !.stored = nw]
          IN scheduleIdleTimer(updateIdleStartFromActivity(c2, nw, cl), t)

\* syncIdleState without its branch for the suspended coordinator
syncIdleStateWhileSuspended(c, cl, t) ==
  IF c.idlePromptRef THEN updateCountdown(c, t)
  ELSE IF cl.len = 0 \/ cl.mins = 0
  THEN [clearIdlePrompt(clearIdleTimers(c, TRUE))
          EXCEPT !.idleStartsAt = 0, !.lastActivityAt = 0, !.stored = 0]
  ELSE LET c1 == ensureActivityTimestamp(c, t)
           c2 == updateIdleStartFromActivity(c1, c1.lastActivityAt, cl)
       IN IF c2.idleStartsAt # 0 /\ t >= c2.idleStartsAt
          THEN startIdleCountdown(c2, c2.idleStartsAt, t)
          ELSE scheduleIdleTimer(c2, t)

syncIdleState(c, cl, t) ==
  IF c.idleSuspended THEN clearIdlePrompt(clearIdleTimers(c, FALSE))
  ELSE IF c.idlePromptRef THEN updateCountdown(c, t)
  ELSE IF cl.len = 0 \/ cl.mins = 0
  THEN [clearIdlePrompt(clearIdleTimers(c, TRUE))
          EXCEPT !.idleStartsAt = 0, !.lastActivityAt = 0, !.stored = 0]
  ELSE LET c1 == ensureActivityTimestamp(c, t)
           c2 == updateIdleStartFromActivity(c1, c1.lastActivityAt, cl)
       IN IF c2.idleStartsAt # 0 /\ t >= c2.idleStartsAt
          THEN startIdleCountdown(c2, c2.idleStartsAt, t)
          ELSE scheduleIdleTimer(c2, t)

\* onActivity without the document.hidden test
onActivityWhileHidden(c, cl, isHidden, t) ==
  IF cl.len = 0 \/ cl.mins = 0 THEN c
  ELSE IF c.idleSuspended
  THEN recordActivity([c EXCEPT !.idleSuspended = FALSE], TRUE, t, cl, t)
  ELSE LET lastActivity == IF c.lastActivityAt # 0 THEN c.lastActivityAt ELSE c.stored
           idleStart == lastActivity + Max(1, cl.mins) * 60 * 1000
       IN IF lastActivity # 0 /\ t >= idleStart
          THEN startIdleCountdown([c EXCEPT !.idleStartsAt = idleStart], idleStart, t)
          ELSE recordActivity(c, TRUE, 0, cl, t)

onActivity(c, cl, isHidden, t) ==
  IF isHidden THEN c
  ELSE IF cl.len = 0 \/ cl.mins = 0 THEN c
  ELSE IF c.idleSuspended
  THEN recordActivity([c EXCEPT !.idleSuspended = FALSE], TRUE, t, cl, t)
  ELSE LET lastActivity == IF c.lastActivityAt # 0 THEN c.lastActivityAt ELSE c.stored
           idleStart == lastActivity + Max(1, cl.mins) * 60 * 1000
       IN IF lastActivity # 0 /\ t >= idleStart
          THEN startIdleCountdown([c EXCEPT !.idleStartsAt = idleStart], idleStart, t)
          ELSE recordActivity(c, TRUE, 0, cl, t)

onFocus(c, cl, t) ==
  LET c1 == broadcastFocusToConsoles([c EXCEPT !.idleSuspended = FALSE], TRUE, t)
  IN syncIdleState(recordActivity(c1, TRUE, 0, cl, t), cl, t)

onBlur(c, t) == broadcastFocusToConsoles(c, FALSE, t)

onVisibility(c, cl, isHidden, t) == IF ~isHidden THEN syncIdleState(c, cl, t) ELSE c

\* continueSession that leaves idleSuspendedRef as it is
continueSessionStaysSuspended(c, cl, t) ==
  LET c1 == [clearIdlePrompt(c) EXCEPT !.sessionEnded = FALSE]
  IN refresh(recordActivity(c1, TRUE, 0, cl, t))

continueSession(c, cl, t) ==
  LET c1 == [clearIdlePrompt(c) EXCEPT !.sessionEnded = FALSE, !.idleSuspended = FALSE]
  IN refresh(recordActivity(c1, TRUE, 0, cl, t))

\* consoleHandshakeRef.current[instanceId] is "none" or names the window that
\* the send of its interval has captured: "same", the window registered in
\* consoleWindowsRef for the id, or an earlier window of the id, which is
\* "open" or "closed".
stopConsoleHandshake(c, instanceId) == [c EXCEPT !.consoleHandshake[instanceId] = "none"]

\* send of startConsoleHandshake with its captured window win
send(c, instanceId, win) ==
  IF (IF win = "same" THEN c.consoleWindows[instanceId] \in {"none", "closed"}
      ELSE win = "closed")
  THEN stopConsoleHandshake([c EXCEPT !.consoleWindows[instanceId] = "none"], instanceId)
  ELSE IF win = "same" /\ c.consoleWindows[instanceId] = "broken" THEN c
  ELSE [c EXCEPT !.outbox = @ \cup {[type |-> "idle-handshake", to |-> instanceId,
                                      timestamp |-> 0, earlier |-> win # "same"]}]

\* The window just opened is registered already; replaced is what was
\* registered for the id before.  An interval that is running keeps its send.
startConsoleHandshake(c, instanceId, replaced) ==
  LET c1 == [c EXCEPT !.consoleHandshake[instanceId] = IF @ = "same" THEN replaced ELSE @]
      c2 == send(c1, instanceId, "same")
  IN IF c2.consoleHandshake[instanceId] = "none"
     THEN [c2 EXCEPT !.consoleHandshake[instanceId] = "same"]
     ELSE c2

\* hasUrl: instance.console_url is set; hasFocus: document.hasFocus()
connect(c, instanceId, hasUrl, hasFocus, t) ==
  IF hasUrl
  THEN LET c1 == startConsoleHandshake([c EXCEPT !.consoleWindows[instanceId] = "open"],
                                       instanceId, c.consoleWindows[instanceId])
       IN IF hasFocus
          THEN [c1 EXCEPT !.outbox = @ \cup {[type |-> "idle-focus", to |-> instanceId,
                                               timestamp |-> t]}]
          ELSE c1
  ELSE [c EXCEPT !.message = "Console URL not available yet"]

\* handleMessage that takes a handshake-ack of any source
handleMessageAckAnySource(c, payload, t) ==
  LET ts == IF payload.timestamp # 0 THEN payload.timestamp ELSE t
  IN IF payload.type = "idle-focus" /\ payload.source = "vm"
     THEN suspendIdle(c, ts, MountClosure)
     ELSE IF payload.type = "idle-blur" /\ payload.source = "vm"
     THEN resumeIdle(c, ts, MountClosure, t)
     ELSE IF payload.type = "idle-activity" /\ payload.source = "vm"
     THEN handleExternalActivity(c, ts, MountClosure, t)
     ELSE IF payload.type = "idle-handshake-ack" /\ payload.instanceId # ""
     THEN stopConsoleHandshake(c, payload.instanceId)
     ELSE IF payload.type = "idle-stop" /\ payload.instanceId # ""
     THEN IF payload.action = "delete"
          THEN deleteInstances(c, {payload.instanceId}, payload.reason, FALSE)
          ELSE stopInstances(c, {payload.instanceId})
     ELSE c

\* handleMessage that takes an idle-stop for every active session
handleMessageStopsAll(c, payload, t) ==
  LET ts == IF payload.timestamp # 0 THEN payload.timestamp ELSE t
  IN IF payload.type = "idle-focus" /\ payload.source = "vm"
     THEN suspendIdle(c, ts, MountClosure)
     ELSE IF payload.type = "idle-blur" /\ payload.source = "vm"
     THEN resumeIdle(c, ts, MountClosure, t)
     ELSE IF payload.type = "idle-activity" /\ payload.source = "vm"
     THEN handleExternalActivity(c, ts, MountClosure, t)
     ELSE IF payload.type = "idle-handshake-ack" /\ payload.source = "vm"
             /\ payload.instanceId # ""
     THEN stopConsoleHandshake(c, payload.instanceId)
     ELSE IF payload.type = "idle-stop" /\ payload.instanceId # ""
     THEN IF payload.action = "delete"
          THEN deleteInstances(c, c.latestInstanceIds \cup {payload.instanceId},
                               payload.reason, FALSE)
          ELSE stopInstances(c, c.latestInstanceIds \cup {payload.instanceId})
     ELSE c

\* The listener is registered once, by an effect with an empty dependency list:
\* the functions it calls are those of the first render.  A payload field that
\* is absent is 0 (timestamp, tested by Number.isFinite) or "" (the others).
handleMessage(c, payload, t) ==
  LET ts == IF payload.timestamp # 0 THEN payload.timestamp ELSE t
  IN IF payload.type = "idle-focus" /\ payload.source = "vm"
     THEN suspendIdle(c, ts, MountClosure)
     ELSE IF payload.type = "idle-blur" /\ payload.source = "vm"
     THEN resumeIdle(c, ts, MountClosure, t)
     ELSE IF payload.type = "idle-activity" /\ payload.source = "vm"
     THEN handleExternalActivity(c, ts, MountClosure, t)
     ELSE IF payload.type = "idle-handshake-ack" /\ payload.source = "vm"
             /\ payload.instanceId # ""
     THEN stopConsoleHandshake(c, payload.instanceId)
     ELSE IF payload.type = "idle-stop" /\ payload.instanceId # ""
     THEN IF payload.action = "delete"
          THEN deleteInstances(c, {payload.instanceId}, payload.reason, FALSE)
          ELSE stopInstances(c, {payload.instanceId})
     ELSE c

\* ------------------------------------------------------------- state
\* the component after its first render and mount effects: instances = [],
\* so syncIdleState has cleared everything, and refresh() has been called
InitCo ==
  [idleTimerRef |-> 0, timers |-> {}, countdownRef |-> 0, intervals |-> {},
   countdownEndsAt |-> 0, idleStartsAt |-> 0, lastActivityAt |-> 0, stored |-> 0,
   idleSuspended |-> FALSE, idlePromptRef |-> FALSE, showIdlePrompt |-> FALSE,
   idleCountdown |-> -1, sessionEnded |-> FALSE, message |-> "",
   latestInstanceIds |-> {}, consoleWindows |-> [s \in Sessions |-> "none"],
   consoleHandshake |-> [s \in Sessions |-> "none"], outbox |-> {}, batches |-> <<>>,
   issued |-> [s \in Sessions |-> 0], fetching |-> TRUE]

\* The component after the first render and its mount effects, in a tab whose
\* sessionStorage holds stored (0: nothing): refresh() is under way, and
\* syncIdleState has run with the empty session list of the first render.
mount(stored, t) == syncIdleState([InitCo EXCEPT !.stored = stored], MountClosure, t)

\* rec names the history a run records: "" for none
InitGh(rec) ==
  [rec |-> rec, held |-> FALSE, awaiting |-> FALSE, tainted |-> FALSE, handled |-> FALSE,
   promptT0 |-> 0, promptIds |-> {}, contUntil |-> 0, done404 |-> "",
   reloaded |-> 0]

\* the reaper before its first run, with the dashboard polling
InitRp ==
  [alive |-> TRUE, nextRun |-> ReaperIntervalMs, lastActiveAt |-> [s \in Sessions |-> 0],
   failed |-> {}, reaped |-> {}]

Boot ==
  /\ rp = InitRp
  /\ now = EventStepMs
  /\ hidden = FALSE
  /\ pods \in [Sessions -> {"absent", "running"}]
  /\ instances = [s \in Sessions |-> "absent"]
  /\ templates = NoTemplates
  /\ co = InitCo

Init == Boot /\ gh = InitGh("")

Cur == Closure(instances, templates)
AtEventInstant == now % EventStepMs = 0
MaxTimeMs == MaxSteps * EventStepMs
\* the requests a handler may leave in flight stay within the bound
Fits(c) == Len(c.batches) <= MaxBatches

\* the idle timeouts {t1..tn} of the active sessions of a list, in minutes
Timeouts(inst) == {SrvTemplates[TemplateOf(s)] : s \in Sessions \cap activeInstances(inst)}

\* ------------------------------------------------------------ history
\* What the run has seen (each specification records the part named by
\* gh.rec and leaves the rest as it started), once the handler of an event of the given kind has
\* taken the component from co to c.
\*   held      a console focus message has been received, and since then no
\*             console blur message and none of the dashboard's own events
\*             that lift the suspension
\*   awaiting  a console focus message has been received, and since then no
\*             console blur message, whatever its timestamp
\*   tainted   a console focus message has been received and lastActivityAt
\*             has not been set by the dashboard itself since
\*   handled   the prompt has been opened, or the countdown has run out, for
\*             the current lastActivityAt
\*   promptT0, promptIds   while the prompt is visible: the deadline it was
\*             opened for and the sessions active when it opened
\*   contUntil c + t of the last continueSession at c with effective timeout
\*             t, while the timeout set is unchanged and c + t is ahead
\*   done404   the kind of the batch whose responses have just come, when some
\*             were 404 and all the others 200; "" after any other event
\*   reloaded  the lastActivityAt that a reload of the page found, until the
\*             first response of the list requests after it
\* arg is what the event carries: the responses of a batch, the lastActivityAt
\* before a reload, else nothing (0).
Track(kind, arg, c) ==
  LET opened == c.showIdlePrompt /\ ~co.showIdlePrompt
      console == kind \in {"idle-focus", "idle-blur", "idle-activity"}
      lifts == \/ kind \in {"idle-blur", "focus", "continue"}
               \/ kind = "activity" /\ ~hidden /\ Timeouts(instances) # {}
  IN [rec |-> gh.rec,
      held |-> IF gh.rec # "focus" THEN FALSE
               ELSE IF kind = "idle-focus" THEN TRUE ELSE IF lifts THEN FALSE ELSE gh.held,
      awaiting |-> IF gh.rec # "focus" THEN FALSE
                   ELSE IF kind = "idle-focus" THEN TRUE
                   ELSE IF kind = "idle-blur" THEN FALSE ELSE gh.awaiting,
      tainted |-> IF gh.rec # "deadline" THEN FALSE
                  ELSE IF kind = "idle-focus" THEN TRUE
                  ELSE IF ~console /\ c.lastActivityAt # co.lastActivityAt THEN FALSE
                  ELSE gh.tainted,
      handled |-> IF gh.rec # "deadline" THEN FALSE
                  ELSE IF c.lastActivityAt # co.lastActivityAt THEN opened
                  ELSE gh.handled \/ opened,
      promptT0 |-> IF gh.rec # "prompt" THEN 0
                   ELSE IF opened THEN c.countdownEndsAt - PROMPT_COUNTDOWN_SECONDS * 1000
                   ELSE IF ~c.showIdlePrompt THEN 0 ELSE gh.promptT0,
      promptIds |-> IF gh.rec # "prompt" THEN {}
                    ELSE IF opened THEN c.latestInstanceIds
                    ELSE IF ~c.showIdlePrompt THEN {} ELSE gh.promptIds,
      contUntil |-> IF gh.rec # "continue" THEN 0
                    ELSE IF kind = "continue" /\ Timeouts(instances) # {}
                    THEN now + SetMin(Timeouts(instances)) * 60 * 1000
                    ELSE IF kind = "fetch" /\ Timeouts(pods) # Timeouts(instances) THEN 0
                    ELSE gh.contUntil,
      done404 |-> IF gh.rec = "batch" /\ kind = "done" /\ arg.notFound # {} /\ arg.other = {}
                  THEN arg.kind ELSE "",
      reloaded |-> IF gh.rec # "reload" \/ kind = "fetch" THEN 0
                   ELSE IF kind = "reload" THEN arg ELSE gh.reloaded]

\* the handler of an event of the given kind leaves the component as c
\* A handler runs when the messages posted by the one before it have left.
Step(kind, arg, c) == co.outbox = {} /\ Fits(c) /\ co' = c /\ gh' = Track(kind, arg, c)

\* ------------------------------------------------------------ actions
\* The tick instants of interval x are x.due, x.due + 1000, ...  A tick taken
\* while the prompt is open and the countdown has not run out only redisplays
\* the remaining seconds; the first tick at or after countdownEndsAt ends the
\* session.
DecisiveTick(c, x) ==
  IF x.due >= c.countdownEndsAt THEN x.due
  ELSE x.due + 1000 * Ceil(c.countdownEndsAt - x.due, 1000)

\* the ticks of the intervals before instant u, taken in one step: the last of
\* them leaves the display they all lead to
TickThrough(c, u) ==
  LET past == {x \in c.intervals : x.due < u}
      last(x) == x.due + 1000 * ((u - 1 - x.due) \div 1000)
      moved == [c EXCEPT !.intervals =
                  {IF x \in past THEN [x EXCEPT !.due = last(x) + 1000] ELSE x : x \in @}]
  IN IF past = {} THEN c
     ELSE updateCountdown(moved, SetMin({last(x) : x \in past}))

\* Time passes to the next instant at which something can happen: an event
\* instant, a deadline timer coming due, or the tick that ends the countdown.
\* Timers fire when due, and responses arrive before the clock moves.
Advance ==
  LET counting == {x \in co.intervals : co.idlePromptRef /\ co.countdownEndsAt # 0}
      dues == {x.due : x \in co.timers} \cup {DecisiveTick(co, x) : x \in counting}
      nextGrid == (now \div EventStepMs + 1) * EventStepMs
      next == SetMin({nextGrid} \cup dues)
  IN /\ \A d \in dues : d > now
     /\ ~co.fetching
     /\ co.batches = <<>>
     /\ co.outbox = {}
     /\ next <= MaxTimeMs
     /\ now' = next
     /\ co' = TickThrough(co, next)
     /\ gh' = [gh EXCEPT !.contUntil = IF next >= @ THEN 0 ELSE @]
     /\ UNCHANGED <<hidden, pods, instances, templates, rp>>

\* the setTimeout callback of scheduleIdleTimer: startIdleCountdown(idleStartsAt)
IdleTimerFires ==
  \E x \in co.timers :
    /\ x.due <= now
    /\ Step("timer", 0, startIdleCountdown([co EXCEPT !.timers = @ \ {x}], x.startedAt, now))
    /\ UNCHANGED <<now, hidden, pods, instances, templates, rp>>

\* the setInterval callback of startIdleCountdown: updateCountdown, every second
CountdownTick ==
  \E x \in co.intervals :
    /\ x.due <= now
    /\ Step("tick", 0, updateCountdown(
              [co EXCEPT !.intervals = (@ \ {x}) \cup {[x EXCEPT !.due = @ + 1000]}], now))
    /\ UNCHANGED <<now, hidden, pods, instances, templates, rp>>

\* setInterval(refresh, 5000)
Poll ==
  /\ AtEventInstant
  /\ ~co.fetching
  /\ Step("poll", 0, refresh(co))
  /\ UNCHANGED <<now, hidden, pods, instances, templates, rp>>

\* The response of refresh(): setTemplates, setInstances, then the render's
\* effects in order: latestInstanceIdsRef, and syncIdleState when
\* activeIdleMinutes or activeInstances.length changed.
FetchDone ==
  /\ co.fetching
  /\ instances' = pods
  /\ templates' = SrvTemplates
  /\ LET cl == Closure(pods, SrvTemplates)
         c1 == [co EXCEPT !.fetching = FALSE,
                          !.latestInstanceIds = activeInstances(pods),
                          !.issued = [s \in Sessions |-> 0]]
     IN Step("fetch", 0, IF cl # Cur THEN syncIdleState(c1, cl, now) ELSE c1)
  /\ UNCHANGED <<now, hidden, pods, rp>>

\* mousemove, keydown, mousedown, touchstart, scroll
UserActivity ==
  /\ AtEventInstant
  /\ Step("activity", 0, onActivity(co, Cur, hidden, now))
  /\ UNCHANGED <<now, hidden, pods, instances, templates, rp>>

WindowFocus ==
  /\ AtEventInstant
  /\ ~hidden
  /\ Step("focus", 0, onFocus(co, Cur, now))
  /\ UNCHANGED <<now, hidden, pods, instances, templates, rp>>

WindowBlur ==
  /\ AtEventInstant
  /\ Step("blur", 0, onBlur(co, now))
  /\ UNCHANGED <<now, hidden, pods, instances, templates, rp>>

VisibilityChange ==
  /\ AtEventInstant
  /\ hidden' = ~hidden
  /\ Step("visibility", 0, onVisibility(co, Cur, hidden', now))
  /\ UNCHANGED <<now, pods, instances, templates, rp>>

\* the message event of a payload
Receive(payload) ==
  /\ AtEventInstant
  /\ Step(payload.type, 0, handleMessage(co, payload, now))
  /\ UNCHANGED <<now, hidden, pods, instances, templates, rp>>

\* the timestamps a console message can carry: now, or one event step before
MessageTimes == {now, now - EventStepMs} \ {0}

ConsoleMessageOf(type, ts) ==
  Receive([type |-> type, source |-> "vm", timestamp |-> ts,
           instanceId |-> "", action |-> "", reason |-> ""])

\* a focus, blur or activity message of a console context
ConsoleMessage ==
  \E type \in {"idle-focus", "idle-blur", "idle-activity"}, ts \in MessageTimes :
    ConsoleMessageOf(type, ts)

\* "Connect", enabled for a running session of the list
Connect ==
  /\ AtEventInstant
  /\ \E s \in Sessions, hasUrl \in BOOLEAN, hasFocus \in BOOLEAN :
       /\ instances[s] = "running"
       /\ Step("connect", 0, connect(co, s, hasUrl, hasFocus, now))
  /\ UNCHANGED <<now, hidden, pods, instances, templates, rp>>

\* the user closes a console window: the one registered for a session, or an
\* earlier one that a handshake interval still holds
ConsoleClosed ==
  /\ AtEventInstant
  /\ co.outbox = {}
  /\ \E s \in Sessions :
       \/ /\ co.consoleWindows[s] \in {"open", "broken"}
          /\ co' = [co EXCEPT !.consoleWindows[s] = "closed"]
       \/ /\ co.consoleHandshake[s] = "open"
          /\ co' = [co EXCEPT !.consoleHandshake[s] = "closed"]
  /\ UNCHANGED <<now, hidden, pods, instances, templates, rp, gh>>

\* postMessage to an open console window starts to throw
ConsoleBreaks ==
  /\ AtEventInstant
  /\ co.outbox = {}
  /\ \E s \in Sessions :
       /\ co.consoleWindows[s] = "open"
       /\ co' = [co EXCEPT !.consoleWindows[s] = "broken"]
  /\ UNCHANGED <<now, hidden, pods, instances, templates, rp, gh>>

\* the handshake interval of a window: its send at an event instant (the sends
\* in between repeat it)
HandshakeTick ==
  /\ AtEventInstant
  /\ \E s \in Sessions :
       /\ co.consoleHandshake[s] # "none"
       /\ Step("handshake", 0, send(co, s, co.consoleHandshake[s]))
  /\ UNCHANGED <<now, hidden, pods, instances, templates, rp>>

\* an open console window of a session acknowledges the handshake
HandshakeAck ==
  \E s \in Sessions :
    /\ co.consoleWindows[s] = "open" \/ co.consoleHandshake[s] = "open"
    /\ co.consoleHandshake[s] # "none"
    /\ Receive([type |-> "idle-handshake-ack", source |-> "vm", timestamp |-> now,
                instanceId |-> s, action |-> "", reason |-> ""])

\* the windows take the messages posted to them
Deliver ==
  /\ co.outbox # {}
  /\ co' = [co EXCEPT !.outbox = {}]
  /\ UNCHANGED <<now, hidden, pods, instances, templates, rp, gh>>

\* The page is reloaded: refs, state, timers and console window references are
\* gone, sessionStorage stays, and the component mounts again.
Reload ==
  /\ AtEventInstant
  /\ co.batches = <<>>
  /\ instances' = [s \in Sessions |-> "absent"]
  /\ templates' = NoTemplates
  /\ Step("reload", co.lastActivityAt, mount(co.stored, now))
  /\ UNCHANGED <<now, hidden, pods, rp>>

\* the payloads of the four kinds without the source tag of a console context:
\* another tag (the dashboard's own messages carry "user") or none
Untagged ==
  [type : {"idle-focus", "idle-blur", "idle-activity", "idle-handshake-ack"},
   source : {"user", ""}, timestamp : MessageTimes,
   instanceId : Sessions, action : {""}, reason : {""}]

\* a message of one of these kinds from a context that is no console
UntaggedMessage == \E payload \in Untagged : Receive(payload)

\* "Delete" of a session shown in the list
RemoveClick ==
  /\ AtEventInstant
  /\ \E s \in Sessions :
       /\ instances[s] \in {"running", "stopped"}
       /\ Step("remove", 0, remove(co, s))
  /\ UNCHANGED <<now, hidden, pods, instances, templates, rp>>

\* the console context's own idle timeout asks the dashboard to stop or delete
\* the session of its window
ConsoleStopMessage ==
  \E s \in Sessions, action \in {"delete", "stop"} :
    Receive([type |-> "idle-stop", source |-> "vm", timestamp |-> now,
             instanceId |-> s, action |-> action, reason |-> "idle-timeout"])

\* "Yes, continue", rendered while showIdlePrompt
ContinueClick ==
  /\ AtEventInstant
  /\ co.showIdlePrompt
  /\ Step("continue", 0, continueSession(co, Cur, now))
  /\ UNCHANGED <<now, hidden, pods, instances, templates, rp>>

\* "No, end lab", rendered while showIdlePrompt
EndNowClick ==
  /\ AtEventInstant
  /\ co.showIdlePrompt
  /\ Step("end", 0, endNow(co, FALSE))
  /\ UNCHANGED <<now, hidden, pods, instances, templates, rp>>

\* "OK" of the session-ended dialog
DismissEnded ==
  /\ AtEventInstant
  /\ co.sessionEnded
  /\ Step("ok", 0, [co EXCEPT !.sessionEnded = FALSE])
  /\ UNCHANGED <<now, hidden, pods, instances, templates, rp>>

\* The answers to the requests of the oldest batch, one HTTP status for each id
\* (0: no response at all).  The server answers 404 for a session it does not
\* have, and removes or stops the session of a request it answers with 200.
Answers(b) ==
  {r \in [b.ids -> Statuses] :
     \A s \in b.ids : IF pods[s] \in {"absent", "deleted"} THEN r[s] # 200 ELSE r[s] # 404}

BatchDoneWith(r) ==
  /\ co.batches # <<>>
  /\ LET b == Head(co.batches)
         failures == IF b.kind = "delete" THEN deleteFailures(r) ELSE stopFailures(r)
         c1 == [co EXCEPT !.batches = Tail(@)]
     IN /\ r \in Answers(b)
        /\ pods' = [s \in Sessions |->
                      IF s \in b.ids /\ r[s] = 200
                      THEN (IF b.kind = "stop" THEN "stopped" ELSE "deleted")
                      ELSE pods[s]]
        /\ Step("done",
                [kind |-> b.kind, notFound |-> {s \in b.ids : r[s] = 404},
                 other |-> {s \in b.ids : r[s] \notin {200, 404}}],
                IF b.kind = "delete"
                THEN deleteInstancesDone(c1, b.reason, b.keepMessage, failures)
                ELSE IF b.kind = "stop" THEN stopInstancesDone(c1, failures)
                ELSE removeDone(c1, r[CHOOSE s \in b.ids : TRUE]))
  /\ UNCHANGED <<now, hidden, instances, templates, rp>>

BatchDone ==
  \E r \in [Sessions -> Statuses] :
    /\ co.batches # <<>>
    /\ BatchDoneWith([s \in Head(co.batches).ids |-> r[s]])

\* A session started from elsewhere (another tab or device).  A session id is
\* used once: a deleted session does not come back.
SrvStart ==
  /\ AtEventInstant
  /\ \E s \in Sessions :
       /\ pods[s] = "absent"
       /\ pods' = [pods EXCEPT ![s] = "running"]
  /\ UNCHANGED <<now, hidden, instances, templates, co, gh, rp>>

\* a session removed from elsewhere (the reaper, an administrator, another tab)
SrvRemove ==
  /\ AtEventInstant
  /\ \E s \in Sessions :
       /\ pods[s] \in {"running", "stopped"}
       /\ pods' = [pods EXCEPT ![s] = "deleted"]
  /\ UNCHANGED <<now, hidden, instances, templates, co, gh, rp>>

Next ==
  \/ Advance
  \/ IdleTimerFires
  \/ CountdownTick
  \/ Poll
  \/ FetchDone
  \/ UserActivity
  \/ WindowFocus
  \/ WindowBlur
  \/ VisibilityChange
  \/ ConsoleMessage
  \/ ContinueClick
  \/ EndNowClick
  \/ DismissEnded
  \/ BatchDone
  \/ SrvStart
  \/ SrvRemove

Spec == Init /\ [][Next]_vars
\* the same program, recording the history its properties read
InitDeadline == Boot /\ gh = InitGh("deadline")
SpecDeadline == InitDeadline /\ [][Next]_vars
InitFocus == Boot /\ gh = InitGh("focus")
SpecFocus == InitFocus /\ [][Next]_vars
InitPrompt == Boot /\ gh = InitGh("prompt")
SpecPrompt == InitPrompt /\ [][Next]_vars
InitContinue == Boot /\ gh = InitGh("continue")
SpecContinue == InitContinue /\ [][Next]_vars

\* the program with reloads of the page
NextReload == Next \/ Reload
InitReload == Boot /\ gh = InitGh("reload")
SpecReload == InitReload /\ [][NextReload]_vars

\* the dashboard with console windows opened from it, the session list fixed
NextConsole ==
  \/ Advance \/ IdleTimerFires \/ CountdownTick \/ Poll \/ FetchDone
  \/ UserActivity \/ WindowFocus \/ WindowBlur \/ ConsoleMessage \/ UntaggedMessage
  \/ Connect \/ ConsoleClosed \/ HandshakeTick \/ HandshakeAck \/ Deliver
InitConsole == Boot /\ gh = InitGh("")
SpecConsole == InitConsole /\ [][NextConsole]_vars

\* the dashboard with console windows that close or fail, and no message from
\* them but the acknowledgement
NextBroadcast ==
  \/ Advance \/ IdleTimerFires \/ CountdownTick \/ Poll \/ FetchDone
  \/ UserActivity \/ WindowFocus \/ WindowBlur
  \/ Connect \/ ConsoleClosed \/ ConsoleBreaks \/ HandshakeTick \/ HandshakeAck \/ Deliver
InitBroadcast == Boot /\ gh = InitGh("")
SpecBroadcast == InitBroadcast /\ [][NextBroadcast]_vars

\* the dashboard whose user only deletes sessions and ends the prompt
NextRemove ==
  \/ Advance \/ IdleTimerFires \/ CountdownTick \/ Poll \/ FetchDone
  \/ BatchDone \/ SrvRemove \/ RemoveClick \/ EndNowClick \/ DismissEnded
InitRemove == Boot /\ gh = InitGh("")
SpecRemove == InitRemove /\ [][NextRemove]_vars

\* the dashboard left alone by its user, with the console contexts' stop
\* requests
NextStop ==
  \/ Advance \/ IdleTimerFires \/ CountdownTick \/ Poll \/ FetchDone
  \/ BatchDone \/ SrvRemove \/ ConsoleStopMessage
InitStop == Boot /\ gh = InitGh("batch")
SpecStop == InitStop /\ [][NextStop]_vars

\* The template lists a response may carry: a template of a session can be
\* missing from the list, and idle_timeout_minutes can be absent or 0 (both 0
\* here, the program tests the field by truthiness), a number of minutes, or a
\* number below 1, which the administration form never stores but the
\* program does not rule out.
TimeoutValues == {-1, 0, 2}
TemplateLists == UNION {[d -> TimeoutValues] : d \in SUBSET {"t1", "t2"}}

\* the response of refresh() with the template list tmpls
FetchTemplates ==
  /\ co.fetching
  /\ instances' = pods
  /\ \E tmpls \in TemplateLists :
       /\ templates' = tmpls
       /\ LET cl == Closure(pods, tmpls)
              c1 == [co EXCEPT !.fetching = FALSE,
                               !.latestInstanceIds = activeInstances(pods),
                               !.issued = [s \in Sessions |-> 0]]
          IN Step("fetch", 0, IF cl # Cur THEN syncIdleState(c1, cl, now) ELSE c1)
  /\ UNCHANGED <<now, hidden, pods, rp>>

\* the dashboard with template lists of every kind
NextTemplates ==
  \/ Advance \/ IdleTimerFires \/ CountdownTick \/ Poll \/ FetchTemplates
  \/ UserActivity \/ SrvStart \/ SrvRemove
InitTemplates == Boot /\ gh = InitGh("")
SpecTemplates == InitTemplates /\ [][NextTemplates]_vars

TypeOK == co.idleCountdown \in -1..PROMPT_COUNTDOWN_SECONDS

\* ------------------------------------------------------------- reaper
\* The server side on its own: the sessions, the last_active_at kept for each,
\* the reaper loop, and a dashboard that polls until it crashes or is closed.
\* the reaper using the global default timeout for every session
reaperTimeoutDefault(s) == DEFAULT_IDLE_MINUTES * 60 * 1000
reaperTimeoutMs(s) == SrvTemplates[TemplateOf(s)] * 60 * 1000

\* not in a terminal state
nonTerminal(s) == pods[s] \in {"pending", "running", "stopping"}

reaperOverdue(s) == nonTerminal(s) /\ now > rp.lastActiveAt[s] + reaperTimeoutMs(s)

InitReaper ==
  /\ now = ReaperStepMs
  /\ hidden = FALSE
  /\ pods \in [Sessions -> {"absent", "running"}]
  /\ instances = [s \in Sessions |-> "absent"]
  /\ templates = NoTemplates
  /\ co = InitCo
  /\ gh = InitGh("")
  /\ rp = [InitRp EXCEPT !.lastActiveAt = [s \in Sessions |-> now]]

\* time passes to the next event instant or to the reaper's next run; a run that
\* is due happens before the clock moves on
ReaperClock ==
  LET nextGrid == (now \div ReaperStepMs + 1) * ReaperStepMs
      next == IF rp.nextRun < nextGrid THEN rp.nextRun ELSE nextGrid
  IN /\ rp.nextRun > now
     /\ next <= ReaperMaxSteps * ReaperStepMs
     /\ now' = next
     /\ UNCHANGED <<hidden, pods, instances, templates, co, rp, gh>>

\* One pass of the reaper loop: every session that is not terminal and whose
\* last_active_at is older than its timeout is deleted through the
\* orchestrator; a call that fails is tried again by the next pass.
ReaperRun ==
  /\ now >= rp.nextRun
  /\ \E failed \in SUBSET {s \in Sessions : reaperOverdue(s)} :
       LET done == {s \in Sessions : reaperOverdue(s)} \ failed
       IN /\ pods' = [s \in Sessions |-> IF s \in done THEN "deleted" ELSE pods[s]]
          /\ rp' = [rp EXCEPT !.nextRun = now + ReaperIntervalMs,
                               !.failed = failed,
                               !.reaped = @ \cup done]
  /\ UNCHANGED <<now, hidden, instances, templates, co, gh>>

\* the dashboard's poll of the session list refreshes last_active_at of the
\* running sessions
ClientPing ==
  /\ rp.alive
  /\ rp' = [rp EXCEPT !.lastActiveAt =
               [s \in Sessions |-> IF pods[s] = "running" THEN now ELSE @[s]]]
  /\ UNCHANGED <<now, hidden, pods, instances, templates, co, gh>>

\* the dashboard crashes or its tab is closed: no poll and no prompt from then on
ClientCrash ==
  /\ rp.alive
  /\ rp' = [rp EXCEPT !.alive = FALSE]
  /\ UNCHANGED <<now, hidden, pods, instances, templates, co, gh>>

\* a session is started
ReaperSessionStart ==
  /\ rp.alive
  /\ \E s \in Sessions :
       /\ pods[s] = "absent"
       /\ pods' = [pods EXCEPT ![s] = "running"]
       /\ rp' = [rp EXCEPT !.lastActiveAt[s] = now]
  /\ UNCHANGED <<now, hidden, instances, templates, co, gh>>

NextReaper ==
  \/ ReaperClock
  \/ ReaperRun
  \/ ClientPing
  \/ ClientCrash
  \/ ReaperSessionStart

SpecReaper == InitReaper /\ [][NextReaper]_vars

\* ------------------------------------------------------------ properties
\* the effective idle timeout of the active sessions of the fetched list, ms
MinTimeoutMs == SetMin(Timeouts(instances)) * 60 * 1000
\* the prompt becomes visible in this step
Opens == ~co.showIdlePrompt /\ co'.showIdlePrompt
\* this step takes the prompt away and ends the session
Ends == co.showIdlePrompt /\ ~co'.showIdlePrompt /\ co'.sessionEnded
\* ... and it is not the "No, end lab" button: the countdown has run out
RunsOut == Ends /\ ~EndNowClick
\* a delete request for session s is sent in this step
DeleteSent(s) ==
  /\ Len(co'.batches) = Len(co.batches) + 1
  /\ co'.batches[Len(co'.batches)].kind = "delete"
  /\ s \in co'.batches[Len(co'.batches)].ids

\* C2: in every reachable state at most one idle-deadline timer is pending.
C2_OneDeadlineTimer == Cardinality(co.timers) <= 1

\* C2 witness: a deadline timer is pending that replaced an earlier one (it was
\* scheduled for an activity later than the first one of the run).
C2_Witness ==
  /\ Timeouts(instances) # {}
  /\ co.lastActivityAt > EventStepMs
  /\ \E x \in co.timers : x.id = co.idleTimerRef /\ x.due = co.lastActivityAt + MinTimeoutMs

\* C8: no session id has a second delete request sent for it before the session
\* list has been refreshed (issued counts the requests since the last refresh).
C8_NoSecondDelete == \A s \in Sessions : co.issued[s] <= 1

\* C9: a continueSession that comes after endNow has sent its delete requests
\* (and before the list is refreshed) is ignored: it leaves the requests in
\* flight, leaves no deadline timer armed and leaves sessionEnded as it was.
C9_ContinueAfterEndIgnored ==
  [][(ContinueClick /\ \E s \in co.latestInstanceIds : co.issued[s] >= 1)
       => /\ co'.batches = co.batches
          /\ co'.timers = {}
          /\ co'.sessionEnded = co.sessionEnded]_vars

\* the idle deadline of the fetched list's active sessions: lastActivityAt + min(t1..tn)
Deadline == co.lastActivityAt + MinTimeoutMs
\* the deadline has passed and the dashboard itself set lastActivityAt
Overdue ==
  /\ Timeouts(instances) # {}
  /\ co.lastActivityAt # 0
  /\ ~gh.tainted
  /\ now > Deadline

\* C1: with a non-empty set of active sessions, the prompt is never opened
\* before lastActivityAt + min(t1..tn); and, no console focus message having
\* been received since the dashboard set lastActivityAt, once that time has
\* passed the prompt is open or has been opened for this lastActivityAt (timers
\* that are due run before the clock moves on: one scheduling tick).
C1_PromptAtDeadline ==
  [][/\ Opens => (Timeouts(instances') # {} /\ co'.lastActivityAt # 0 /\ now' >= Deadline')
     /\ Overdue' => (co'.showIdlePrompt \/ gh'.handled)]_vars

\* C1 witness: two sessions with different timeouts are active, no console
\* message has interfered, and the prompt is open at exactly
\* lastActivityAt + the smaller timeout.
C1_Witness ==
  /\ gh.rec = "deadline"
  /\ Cardinality(Timeouts(instances)) = 2
  /\ ~gh.tainted
  /\ co.showIdlePrompt
  /\ co.lastActivityAt # 0
  /\ now = Deadline
  /\ co.idleCountdown = PROMPT_COUNTDOWN_SECONDS

C4_EndsAfterGrace ==
  [][(RunsOut /\ gh.promptT0 # 0) =>
       /\ now' >= gh.promptT0 + PROMPT_COUNTDOWN_SECONDS * 1000
       /\ now' <= gh.promptT0 + (PROMPT_COUNTDOWN_SECONDS + 1) * 1000]_vars

\* C5: a prompt that opens exactly at its deadline shows 300; while the prompt
\* is visible the countdown is an integer in 0..300 and never increases.
C5_CountdownMonotone ==
  [][/\ (Opens /\ gh'.promptT0 = now') => co'.idleCountdown = PROMPT_COUNTDOWN_SECONDS
     /\ co'.showIdlePrompt => co'.idleCountdown \in 0..PROMPT_COUNTDOWN_SECONDS
     /\ (co.showIdlePrompt /\ co'.showIdlePrompt) => co'.idleCountdown <= co.idleCountdown]_vars

\* C7 as stated: when the countdown runs out, a delete request is sent for every
\* session id that was active when the prompt opened (gh.promptIds), the session
\* is ended and the message reads 'Session ended due to inactivity.'
C7_DeletesIdsAtOpen ==
  [][RunsOut =>
       /\ \A s \in gh.promptIds : DeleteSent(s)
       /\ co'.sessionEnded
       /\ co'.message = "Session ended due to inactivity."]_vars

\* C7 amended: when the countdown runs out, a delete request with reason
\* idle-timeout is sent for exactly the session ids active in the list as last
\* fetched at that moment (none if the list has no active session), the prompt
\* is closed with its timers cleared, the session is ended and the message
\* reads 'Session ended due to inactivity.'
C7_DeletesLatestIds ==
  [][RunsOut =>
       /\ \A s \in co'.latestInstanceIds : DeleteSent(s)
       /\ co'.latestInstanceIds = activeInstances(instances')
       /\ co'.latestInstanceIds # {} =>
            /\ co'.batches[Len(co'.batches)].ids = co'.latestInstanceIds
            /\ co'.batches[Len(co'.batches)].reason = "idle-timeout"
       /\ co'.latestInstanceIds = {} => co'.batches = co.batches
       /\ co'.timers = {} /\ co'.intervals = {} /\ co'.idleCountdown = -1
       /\ co'.sessionEnded
       /\ co'.message = "Session ended due to inactivity."]_vars

\* C7 witness: the countdown of a prompt has run out and the delete requests
\* with reason idle-timeout are in flight.
C7_Witness ==
  /\ gh.rec = "prompt"
  /\ co.sessionEnded
  /\ ~co.showIdlePrompt
  /\ co.message = "Session ended due to inactivity."
  /\ co.batches # <<>>
  /\ co.batches[1].reason = "idle-timeout"
  /\ co.batches[1].ids = co.latestInstanceIds

\* C6: continueSession at time c, with the prompt visible and a session of
\* effective timeout t active, closes the prompt at once, and no prompt is
\* visible again before c + t (gh.contUntil) unless the timeout set changes.
C6_NoPromptBeforeNextDeadline ==
  [][/\ (ContinueClick /\ Timeouts(instances) # {}) => ~co'.showIdlePrompt
     /\ (co'.showIdlePrompt /\ gh'.contUntil # 0) => now' >= gh'.contUntil]_vars

DoneWith404(kind, r) ==
  /\ co.batches # <<>>
  /\ Head(co.batches).kind = kind
  /\ LET rr == [s \in Head(co.batches).ids |-> r[s]]
     IN /\ BatchDoneWith(rr)
        /\ \E s \in DOMAIN rr : rr[s] = 404
        /\ \A s \in DOMAIN rr : rr[s] \in {200, 404}

C12_StopNotFoundIsSuccess ==
  [][\A r \in [Sessions -> Statuses] :
       DoneWith404("stop", r)
         => (co'.message = StopFailedMessage => co.message = StopFailedMessage)]_vars

\* C15: while the prompt is open a local activity signal (pointer, key, scroll,
\* touch, window focus) leaves lastActivityAt, the idle deadline and the end of
\* the countdown as they are and does not close the prompt.
C15_PromptIgnoresActivity ==
  [][(UserActivity \/ WindowFocus) /\ co.showIdlePrompt /\ co.idlePromptRef
       => /\ co'.lastActivityAt = co.lastActivityAt
          /\ co'.idleStartsAt = co.idleStartsAt
          /\ co'.countdownEndsAt = co.countdownEndsAt
          /\ co'.showIdlePrompt]_vars

\* C16: an activity signal that arrives while the dashboard document is hidden
\* changes nothing: lastActivityAt, the idle deadline, the timers and the
\* suspended flag stay as they are, and no prompt opens.
C16_HiddenActivityIgnored == [][UserActivity /\ hidden => co' = co]_vars

\* hidden, at an instant at which a signal in the visible document would have
\* been recorded as activity
C16_Witness ==
  /\ hidden
  /\ AtEventInstant
  /\ Cur.len > 0
  /\ ~co.idleSuspended /\ ~co.showIdlePrompt
  /\ co.lastActivityAt # 0 /\ co.lastActivityAt < now
  /\ onActivity(co, Cur, FALSE, now).lastActivityAt = now

\* C17: a console window's focus message suspends idle tracking: afterwards the
\* suspended flag is set, no deadline timer is pending, no prompt is open, and
\* lastActivityAt is still defined if it was defined before.
C17_FocusSuspends ==
  [][\A ts \in MessageTimes :
       ConsoleMessageOf("idle-focus", ts)
         => /\ co'.idleSuspended
            /\ co'.timers = {}
            /\ ~co'.showIdlePrompt /\ ~co'.idlePromptRef
            /\ co.lastActivityAt # 0 => co'.lastActivityAt # 0]_vars

\* suspended by a focus message, with the activity time kept
C17_Witness ==
  /\ co.idleSuspended
  /\ Cur.len > 0
  /\ co.timers = {} /\ ~co.showIdlePrompt
  /\ co.lastActivityAt # 0

\* C18: a console window's blur message with timestamp ts, received while at
\* least one session is active, clears the suspended flag and arms the deadline
\* timer for ts plus the effective timeout.
C18_BlurRearms ==
  [][\A ts \in MessageTimes :
       ConsoleMessageOf("idle-blur", ts) /\ Timeouts(instances) # {}
         => /\ ~co'.idleSuspended
            /\ \E x \in co'.timers :
                 x.id = co'.idleTimerRef /\ x.due = Max(now, ts + MinTimeoutMs)]_vars

\* C19: with at least one active session, continueSession called at time t
\* ends with the prompt closed, the suspended flag clear, lastActivityAt = t and
\* the one deadline timer armed for t plus the effective timeout, whether or
\* not idle tracking was suspended or the prompt open before the call.
C19_ContinueResets ==
  Timeouts(instances) # {}
    => LET c == continueSession(co, Cur, now)
       IN /\ ~c.showIdlePrompt /\ ~c.idlePromptRef
          /\ ~c.idleSuspended
          /\ c.lastActivityAt = now
          /\ \E x \in c.timers : x.id = c.idleTimerRef /\ x.due = now + MinTimeoutMs
          /\ Cardinality(c.timers) = 1

\* "Yes, continue" has just been clicked in the open prompt
C19_Witness ==
  /\ Timeouts(instances) # {}
  /\ gh.contUntil = now + MinTimeoutMs
  /\ co.lastActivityAt = now
  /\ ~co.showIdlePrompt /\ ~co.idleSuspended
  /\ \E x \in co.timers : x.due = now + MinTimeoutMs

\* the dashboard state without its message texts: the message shown and the
\* reason that travels with a batch
WithoutTexts(c) ==
  [c EXCEPT !.message = "",
            !.batches = [i \in DOMAIN @ |-> [@[i] EXCEPT !.reason = ""]]]

\* C20: the reason of endNow is used for messages only: from the same state
\* endNow(true) and endNow(false) send the same requests for the same ids and
\* leave the same timers, prompt and sessionEnded state, and whatever the
\* responses are the two batches end in the same state; only texts differ.
C20_ReasonOnlyForMessage ==
  LET auto == endNow(co, TRUE)
      user == endNow(co, FALSE)
  IN /\ WithoutTexts(auto) = WithoutTexts(user)
     /\ \A failures \in SUBSET co.latestInstanceIds :
          WithoutTexts(deleteInstancesDone(auto, "idle-timeout", TRUE, failures))
            = WithoutTexts(deleteInstancesDone(user, "user-end", TRUE, failures))

\* the prompt is open, where endNow is called by the button (false) and by the
\* countdown (true), and there are ids to delete
C20_Witness ==
  /\ co.showIdlePrompt
  /\ co.latestInstanceIds # {}
  /\ co.timers # {} \/ co.intervals # {}
  /\ endNow(co, TRUE).message # endNow(co, FALSE).message
  /\ Len(endNow(co, TRUE).batches) = Len(co.batches) + 1

\* C14: recordActivity(ts), called while tracking is not suspended, no prompt
\* is open and at least one session is active, sets lastActivityAt to ts and
\* the deadline to ts plus the minimum timeout, leaves exactly one deadline
\* timer, armed for that deadline, and posts an activity message carrying ts
\* to every registered console window that is still open, and to no other.
C14_RecordActivity ==
  co.outbox = {} /\ ~co.idleSuspended /\ ~co.idlePromptRef /\ Timeouts(instances) # {}
    => \A ts \in MessageTimes :
         LET c == recordActivity(co, TRUE, ts, Cur, now)
         IN /\ c.lastActivityAt = ts
            /\ c.idleStartsAt = ts + MinTimeoutMs
            /\ Cardinality(c.timers) = 1
            /\ \E x \in c.timers :
                 x.id = c.idleTimerRef /\ x.due = Max(now, ts + MinTimeoutMs)
            /\ \A s \in Sessions :
                 co.consoleWindows[s] = "open"
                   <=> [type |-> "idle-activity", to |-> s, timestamp |-> ts] \in c.outbox

\* a pointer event of the dashboard has just been recorded and posted to an
\* open console window, while the window of the other session is closed
C14_Witness ==
  /\ co.lastActivityAt = now
  /\ \E x \in co.timers : x.id = co.idleTimerRef /\ x.due = now + MinTimeoutMs
  /\ \E s \in Sessions :
       /\ co.consoleWindows[s] = "open"
       /\ [type |-> "idle-activity", to |-> s, timestamp |-> now] \in co.outbox
  /\ \E s \in Sessions : co.consoleWindows[s] # "open"

\* C13: a reload of the page while sessions are active does not reset the
\* idle deadline: the first response of the list requests after the reload
\* leaves lastActivityAt as it was before the reload and the deadline at that
\* time plus the effective timeout.
C13_ReloadKeepsDeadline ==
  [][FetchDone /\ gh.reloaded # 0 /\ Timeouts(instances') # {}
       => /\ co'.lastActivityAt = gh.reloaded
          /\ co'.idleStartsAt = gh.reloaded + SetMin(Timeouts(instances')) * 60 * 1000]_vars

\* C21: continueSession cancels the timers of the deadline and the countdown
\* that were in force: right after it no countdown tick of the closed prompt
\* is scheduled, and the only timer armed is the new deadline timer.
C21_ContinueCancelsTimers ==
  [][ContinueClick /\ Timeouts(instances) # {}
       => /\ co'.intervals = {}
          /\ \A x \in co'.timers : x.id = co'.idleTimerRef /\ x.due = now + MinTimeoutMs]_vars

\* the dashboard state apart from the times at which its intervals tick next
BesidesTicks(c) == [c EXCEPT !.intervals = {x.id : x \in @}]

\* C22: a stale timer is a no-op.  A countdown tick that fires while no prompt
\* is active calls no endNow and changes nothing but its own next tick, and
\* the callback of a deadline timer, run while no session is active, opens no
\* prompt and changes nothing.
C22_StaleTimersAreNoOps ==
  [][/\ (CountdownTick \/ Advance) /\ ~co.idlePromptRef
          => BesidesTicks(co') = BesidesTicks(co)
     /\ IdleTimerFires /\ Timeouts(instances) = {}
          => ~Opens /\ [co' EXCEPT !.timers = {}] = [co EXCEPT !.timers = {}]
     /\ Timeouts(instances) = {}
          => \A startedAt \in {0, co.idleStartsAt, now} :
               startIdleCountdown(co, startedAt, now) = co]_vars

\* the interval of a prompt that continueSession closed has ticked since
C22_Witness ==
  /\ ~co.idlePromptRef /\ ~co.showIdlePrompt /\ ~co.sessionEnded
  /\ co.countdownEndsAt # 0
  /\ \E x \in co.intervals : x.due > co.lastActivityAt + 1000

\* C23: the handshake of a console window is sent to it periodically until a
\* handshake-ack for its session id arrives or the window is found closed, and
\* after the ack no handshake is sent for the id.  For a registered open
\* window the interval of its id is either stopped or sends to that window,
\* and while the interval is stopped only a new connect posts a handshake.
C23_HandshakeUntilAck ==
  [][\A s \in Sessions :
       /\ co.consoleWindows[s] = "open" => co.consoleHandshake[s] \in {"none", "same"}
       /\ co.consoleHandshake[s] = "none" /\ ~Connect
            => \A m \in co'.outbox \ co.outbox : ~(m.type = "idle-handshake" /\ m.to = s)]_vars

\* what a broadcast that posts message m(s) to window s may do to state c0:
\* c is the state after it
Tolerant(c0, c, m(_)) ==
  /\ \A s \in Sessions :
       /\ c0.consoleWindows[s] = "closed"
            => c.consoleWindows[s] = "none" /\ c.consoleHandshake[s] = "none"
       /\ c0.consoleWindows[s] # "closed"
            => /\ c.consoleWindows[s] = c0.consoleWindows[s]
               /\ c.consoleHandshake[s] = c0.consoleHandshake[s]
       /\ m(s) \in c.outbox <=> c0.consoleWindows[s] = "open"
  /\ [c EXCEPT !.consoleWindows = c0.consoleWindows,
               !.consoleHandshake = c0.consoleHandshake,
               !.outbox = c0.outbox] = c0

\* C24: a broadcast tolerates closed windows: every registered window found
\* closed loses its entry and its handshake interval, every registered open
\* window is sent the message, a window whose postMessage throws gets nothing
\* and stops nothing, and nothing else of the coordinator changes.
C24_BroadcastTolerant ==
  co.outbox = {}
    => /\ \A ts \in MessageTimes :
            LET m(s) == [type |-> "idle-activity", to |-> s, timestamp |-> ts]
            IN Tolerant(co, broadcastActivityToConsoles(co, ts), m)
       /\ \A focused \in BOOLEAN :
            LET m(s) == [type |-> IF focused THEN "idle-focus" ELSE "idle-blur",
                         to |-> s, timestamp |-> now]
            IN Tolerant(co, broadcastFocusToConsoles(co, focused, now), m)

\* one registered window is closed, the other open or throwing
C24_Witness ==
  /\ co.outbox = {}
  /\ \E s, t \in Sessions :
       /\ co.consoleWindows[s] = "closed" /\ co.consoleHandshake[s] # "none"
       /\ co.consoleWindows[t] = "broken"
  /\ \E s, t \in Sessions :
       /\ co.consoleWindows[s] = "closed"
       /\ broadcastActivityToConsoles(co, now).consoleWindows[s] = "none"
       /\ co.consoleWindows[t] # "none"

\* C25: an activity, focus, blur or handshake-ack message without the source
\* tag of a console context is rejected: it changes nothing of the
\* coordinator, neither suspended, lastActivityAt, the deadline, the prompt
\* nor a handshake interval.
C25_UntaggedRejected == \A payload \in Untagged : handleMessage(co, payload, now) = co

\* a state in which the same messages with the tag would act: a handshake is
\* running and its ack would stop it, a deadline timer is armed and a focus
\* message would cancel it
C25_Witness ==
  /\ co.outbox = {} /\ AtEventInstant
  /\ co.timers # {} /\ ~co.idleSuspended
  /\ \E payload \in Untagged :
       /\ payload.type = "idle-handshake-ack"
       /\ co.consoleHandshake[payload.instanceId] = "same"
       /\ handleMessage(co, [payload EXCEPT !.source = "vm"], now) # co
  /\ \E payload \in Untagged :
       /\ payload.type = "idle-focus"
       /\ handleMessage(co, [payload EXCEPT !.source = "vm"], now).timers = {}

\* the time at which state c brings up the prompt if nothing else happens:
\* now when it is open, the time of the earliest deadline timer when one is
\* armed, and past the horizon otherwise
PromptAt(c) ==
  IF c.showIdlePrompt \/ c.sessionEnded THEN now
  ELSE IF c.timers # {} THEN SetMin({x.due : x \in c.timers})
  ELSE MaxTimeMs + EventStepMs

\* the message of a console context, of the given kind and timestamp
FromConsole(type, ts) ==
  [type |-> type, source |-> "vm", timestamp |-> ts,
   instanceId |-> "", action |-> "", reason |-> ""]

\* C26: losing a console activity, focus or blur message only degrades in the
\* safe direction: the prompt comes no later with the message lost than with
\* the message delivered.  Checked for the two runs that part at a reachable
\* state, one receiving the message and one not, both left alone afterwards
\* or both followed by the same pointer event.
C26_LossIsSafe ==
  co.outbox = {} /\ AtEventInstant /\ Timeouts(instances) # {}
    => \A type \in {"idle-focus", "idle-blur", "idle-activity"}, ts \in MessageTimes :
         LET delivered == handleMessage(co, FromConsole(type, ts), now)
         IN /\ PromptAt(co) <= PromptAt(delivered)
            /\ PromptAt(onActivity(co, Cur, FALSE, now))
                 <= PromptAt(onActivity(delivered, Cur, FALSE, now))

\* C27: the coordinator does not depend on the order of delivery: when a
\* console focus message with timestamp T and the later blur message with
\* timestamp T2 > T are both delivered while a session is active, then in
\* either order the coordinator ends not suspended with a deadline timer armed.
C27_OrderIndependent ==
  co.outbox = {} /\ AtEventInstant /\ Timeouts(instances) # {}
    => \A T \in MessageTimes, T2 \in MessageTimes :
         T < T2 =>
           LET focus == FromConsole("idle-focus", T)
               blur == FromConsole("idle-blur", T2)
               inOrder == handleMessage(handleMessage(co, focus, now), blur, now)
               swapped == handleMessage(handleMessage(co, blur, now), focus, now)
           IN /\ ~inOrder.idleSuspended /\ inOrder.timers # {}
              /\ ~swapped.idleSuspended /\ swapped.timers # {}

\* the batch that a call has just put in flight
Issued(c) == c.batches[Len(c.batches)]

C29_RefetchAfterCall ==
  [][\A r \in [Sessions -> Statuses] :
       co.batches # <<>> /\ BatchDoneWith([s \in Head(co.batches).ids |-> r[s]])
         => /\ co'.fetching
            /\ (\A s \in Head(co.batches).ids : r[s] \notin {200, 404}) => co'.message # ""]_vars

\* C30: suspended is true only while a linked console context holds focus:
\* whenever suspended is true, at least one console window opened by the
\* dashboard is still registered and open.  Stated for the steps the claim
\* names: when a console window is closed (no blur message delivered), the
\* coordinator is left suspended only if another registered window is open.
C30_SuspendedOnlyWhileConsoleOpen ==
  [][ConsoleClosed
       => (co'.idleSuspended => \E s \in Sessions : co'.consoleWindows[s] = "open")]_vars

\* C31: the prompt is entered only with one or more sessions active: a step
\* that leaves the fetched active set empty opens no prompt, starts no
\* countdown and sends no terminate request, a prompt that opens has session
\* ids to end, and the callback of a deadline timer that comes due with no
\* session id changes nothing.
C31_PromptOnlyWithSessions ==
  [][/\ activeInstances(instances') = {}
          => /\ ~Opens
             /\ co'.countdownEndsAt \in {0, co.countdownEndsAt}
             /\ Len(co'.batches) <= Len(co.batches)
     /\ Opens => co'.latestInstanceIds # {}
     /\ co.latestInstanceIds = {}
          => \A startedAt \in {0, co.idleStartsAt, now} :
               startIdleCountdown(co, startedAt, now) = co]_vars

\* a deadline timer is due, its callback about to run, with no session active
\* and no prompt open
C31_Witness ==
  /\ activeInstances(instances) = {} /\ co.latestInstanceIds = {}
  /\ ~co.showIdlePrompt /\ ~co.idlePromptRef
  /\ co.batches = <<>>
  /\ \E x \in co.timers :
       x.due <= now /\ startIdleCountdown(co, x.startedAt, now) = co

\* the template of session s gives no idle timeout: it is not in the fetched
\* list, or its idle_timeout_minutes is missing or 0
NoTimeout(s) == TemplateOf(s) \notin DOMAIN templates \/ templates[TemplateOf(s)] = 0

\* C32: a session whose template gives no idle timeout counts with the
\* default of 30 minutes when the effective timeout is computed, and the
\* timeout between lastActivityAt and the deadline is never less than one
\* minute, whatever the template list holds.
C32_DefaultAndFloor ==
  /\ \A s \in Sessions :
       NoTimeout(s) => templateIdleMinutes(templates, TemplateOf(s)) = DEFAULT_IDLE_MINUTES
  /\ (activeInstances(instances) # {} /\ \A s \in activeInstances(instances) : NoTimeout(s))
       => activeIdleMinutes(instances, templates) = DEFAULT_IDLE_MINUTES
  /\ activeInstances(instances) # {}
       => updateIdleStartFromActivity(co, now, Cur).idleStartsAt >= now + 60 * 1000
  /\ (co.idleStartsAt # 0 /\ co.lastActivityAt # 0)
       => co.idleStartsAt >= co.lastActivityAt + 60 * 1000
  /\ \A x \in co.timers :
       x.id = co.idleTimerRef /\ co.lastActivityAt # 0 => x.due >= co.lastActivityAt + 60 * 1000

\* a session is active whose template is missing from the fetched list, and
\* the deadline timer is armed for 30 minutes after the last activity
C32_Witness ==
  /\ \E s \in activeInstances(instances) : TemplateOf(s) \notin DOMAIN templates
  /\ \A s \in activeInstances(instances) : NoTimeout(s)
  /\ co.lastActivityAt # 0
  /\ co.idleStartsAt = co.lastActivityAt + DEFAULT_IDLE_MINUTES * 60 * 1000
  /\ \E x \in co.timers : x.id = co.idleTimerRef /\ x.due = co.idleStartsAt

\* C33: in every reachable state, suspended implies that no prompt is active
\* or visible and no deadline timer is armed.
C33_SuspendedIsQuiet ==
  co.idleSuspended
    => /\ ~co.showIdlePrompt /\ ~co.idlePromptRef
       /\ co.timers = {} /\ co.idleTimerRef = 0

\* suspended with both sessions active, long after the time at which the
\* deadline of the last activity would have come
C33_Witness ==
  /\ co.idleSuspended
  /\ Cardinality(activeInstances(instances)) = 2
  /\ co.lastActivityAt # 0
  /\ now >= co.lastActivityAt + 2 * MinTimeoutMs
  /\ syncIdleState(co, Cur, now) = co

\* C34: after endNow the prompt is not opened again for the sessions being
\* terminated: a pointer, key or focus event that comes after endNow has sent
\* its delete requests and before the list is refreshed leaves the prompt
\* closed and sends no further request.
C34_NoPromptAfterEndNow ==
  [][(UserActivity \/ WindowFocus) /\ (\E s \in co.latestInstanceIds : co.issued[s] >= 1)
       => /\ ~co'.showIdlePrompt
          /\ co'.batches = co.batches]_vars

\* C35: the prompt does not outlive its sessions: a list response that leaves
\* no session active while the prompt is visible closes the prompt and cancels
\* the countdown, and no countdown runs out, ending the session with 'Session
\* ended due to inactivity.', for an empty session set.
C35_PromptEndsWithSessions ==
  [][/\ (FetchDone /\ co.showIdlePrompt /\ activeInstances(instances') = {})
          => /\ ~co'.showIdlePrompt /\ ~co'.idlePromptRef
             /\ co'.intervals = {} /\ co'.countdownEndsAt = 0
     /\ RunsOut => co.latestInstanceIds # {}]_vars

\* C36: whenever a deadline timer is armed while a session is active, its
\* fire time is lastActivityAt + max(1, effective idle minutes) minutes for
\* the current active set.
C36_TimerAgreesWithActivity ==
  activeInstances(instances) # {}
    => \A x \in co.timers : x.due = co.lastActivityAt + Max(1, Cur.mins) * 60 * 1000

\* a list response changes the active set or its effective timeout and leaves
\* the set non-empty
ListChanges ==
  /\ FetchDone \/ FetchTemplates
  /\ activeInstances(instances) # {} /\ activeInstances(instances') # {}
  /\ Cur' # Cur

\* the deadline that lastActivityAt gives with the list of the response
Rederived == co.lastActivityAt + Max(1, Cur'.mins) * 60 * 1000

\* C37 as stated: a change of the active set that leaves it non-empty leaves
\* lastActivityAt and the stored timestamp unchanged and only re-derives the
\* deadline as lastActivityAt + the new minimum timeout: the timer is armed
\* for it, or the prompt is opened at once if it is already past.
C37_ChangeRederives ==
  [][ListChanges
       => /\ co'.lastActivityAt = co.lastActivityAt /\ co'.stored = co.stored
          /\ (~co.idleSuspended /\ ~co.idlePromptRef)
               => IF now >= Rederived THEN co'.showIdlePrompt
                  ELSE /\ co'.idleStartsAt = Rederived
                       /\ ~co'.showIdlePrompt
                       /\ \E x \in co'.timers : x.id = co'.idleTimerRef /\ x.due = Rederived]_vars

\* C37 amended: such a change leaves lastActivityAt and the stored timestamp
\* unchanged; with tracking not suspended and no prompt open it re-derives the
\* deadline as lastActivityAt + max(1, new minimum timeout): a deadline ahead
\* gets the deadline timer, a deadline already past opens the prompt at once
\* with the countdown ending 300 s after the deadline, and when that end is
\* past as well the sessions are ended at once for inactivity, the delete
\* requests sent, without the prompt being shown.
C37_ChangeRederivesOrEnds ==
  [][ListChanges
       => /\ co'.lastActivityAt = co.lastActivityAt /\ co'.stored = co.stored
          /\ (~co.idleSuspended /\ ~co.idlePromptRef)
               => IF now >= Rederived + PROMPT_COUNTDOWN_SECONDS * 1000
                  THEN /\ ~co'.showIdlePrompt /\ co'.sessionEnded
                       /\ co'.message = "Session ended due to inactivity."
                       /\ co'.timers = {} /\ co'.intervals = {}
                       /\ Len(co'.batches) = Len(co.batches) + 1
                       /\ Issued(co').ids = activeInstances(instances')
                       /\ Issued(co').reason = "idle-timeout"
                  ELSE IF now >= Rederived
                  THEN /\ co'.showIdlePrompt
                       /\ co'.idleStartsAt = Rederived
                       /\ co'.countdownEndsAt = Rederived + PROMPT_COUNTDOWN_SECONDS * 1000
                       /\ co'.batches = co.batches
                  ELSE /\ co'.idleStartsAt = Rederived
                       /\ ~co'.showIdlePrompt
                       /\ \E x \in co'.timers : x.id = co'.idleTimerRef /\ x.due = Rederived
                       /\ co'.batches = co.batches]_vars

\* the prompt has been opened by a list response that shortened the timeout:
\* the deadline is lastActivityAt + the new minimum, the countdown ends 300 s
\* after it, and the timer of the deadline before the change is still pending
C37_Witness ==
  /\ co.showIdlePrompt
  /\ activeInstances(instances) # {}
  /\ co.lastActivityAt # 0 /\ co.stored = co.lastActivityAt
  /\ co.idleStartsAt = co.lastActivityAt + Max(1, Cur.mins) * 60 * 1000
  /\ co.countdownEndsAt = co.idleStartsAt + PROMPT_COUNTDOWN_SECONDS * 1000
  /\ now > co.idleStartsAt
  /\ \E x \in co.timers : x.due > now

\* C38: when a list response leaves no session active while tracking is
\* neither suspended nor prompting, all timers are cancelled and lastActivityAt
\* and the stored timestamp are cleared; and a session that appears after the
\* earlier ones have gone, tracking being neither suspended nor prompting,
\* gets the full idle timeout counted from the response in which it appears.
C38_EmptySetForgetsActivity ==
  [][/\ (FetchDone /\ activeInstances(instances) # {} /\ activeInstances(instances') = {}
           /\ ~co.idleSuspended /\ ~co.idlePromptRef)
          => /\ co'.timers = {} /\ co'.intervals = {}
             /\ co'.lastActivityAt = 0 /\ co'.stored = 0 /\ co'.idleStartsAt = 0
     /\ (FetchDone /\ activeInstances(instances) = {} /\ activeInstances(instances') # {}
           /\ (\E s \in Sessions : instances[s] = "deleted")
           /\ ~co.idleSuspended /\ ~co.idlePromptRef)
          => /\ co'.lastActivityAt = now
             /\ co'.idleStartsAt = now + Max(1, Cur'.mins) * 60 * 1000
             /\ \E x \in co'.timers : x.id = co'.idleTimerRef /\ x.due = co'.idleStartsAt]_vars

\* C39: the entry of a session in the window mapping is pruned only when the
\* window registered for the session is closed: no step removes the entry of
\* a registered window that is open, whatever happens to an earlier window
\* of the same session.
C39_PrunedOnlyWhenClosed ==
  [][\A s \in Sessions :
       co.consoleWindows[s] = "open" => co'.consoleWindows[s] # "none"]_vars

\* the idle-stop messages: with or without a session id, with the action
\* delete, another action or none
StopPayloads ==
  [type : {"idle-stop"}, source : {"vm", ""}, timestamp : {now},
   instanceId : Sessions \cup {""}, action : {"delete", "stop", ""},
   reason : {"idle-timeout", ""}]

\* C40: an idle-stop message naming session X sends exactly one request, for
\* X alone, a delete if its action is delete and a stop otherwise, and leaves
\* lastActivityAt, the deadline, the prompt, the suspended flag and all
\* timers as they are; an idle-stop message without a session id is ignored.
C40_StopMessageOnlyTerminates ==
  \A payload \in StopPayloads :
    LET c == handleMessage(co, payload, now)
    IN IF payload.instanceId = "" THEN c = co
       ELSE /\ Len(c.batches) = Len(co.batches) + 1
            /\ SubSeq(c.batches, 1, Len(co.batches)) = co.batches
            /\ Issued(c).ids = {payload.instanceId}
            /\ Issued(c).kind = IF payload.action = "delete" THEN "delete" ELSE "stop"
            /\ [c EXCEPT !.batches = co.batches, !.issued = co.issued] = co

\* the stop request of an idle-stop message for one session is in flight, the
\* other session is active and the deadline timer is still armed
C40_Witness ==
  /\ co.batches # <<>>
  /\ Head(co.batches).kind = "stop"
  /\ \E s \in Sessions :
       /\ Head(co.batches).ids = {s}
       /\ activeInstances(instances) \ {s} # {}
  /\ co.lastActivityAt # 0
  /\ \E x \in co.timers : x.id = co.idleTimerRef /\ x.due = co.idleStartsAt

====
